---- MODULE Spec2Model ----
(***************************************************************************)
(* A model of caiso_ops' cache-backed data fetchers (caiso_ops/data.py).   *)
(*                                                                         *)
(* The cache pool of one dataset descriptor is a `source` path (raw files) *)
(* and a `target` path (one parquet artifact).  DataFetcher.load is        *)
(* modelled step by step, one action per file-system or remote operation,  *)
(* so that the order of the steps and their effects on the pool are        *)
(* visible in the behaviours.                                              *)
(***************************************************************************)
EXTENDS Integers, Sequences, FiniteSets, TLC

(***************************************************************************)
(* Bounds of the model.                                                    *)
(***************************************************************************)
\* number of load calls in one behaviour
MaxLoads == 3

\* largest number of entries of the source directory in an initial pool
MaxFiles == 2

(***************************************************************************)
(* Tables (pandas.DataFrame).                                              *)
(*   cols  : the set of column labels                                      *)
(*   dt    : dtype of the date columns: "aware" (datetime64 with tz),      *)
(*           "naive" (datetime64 without tz) or "object" (strings)         *)
(*   index : the row labels, in row order                                  *)
(*   rows  : the rows, each a function from cols to cell values            *)
(***************************************************************************)
\* the cell value pandas fills in for a column a frame does not have
NaN == -1

RangeIndex(n) == [i \in 1..n |-> i - 1]

NoFrame == [cols |-> {}, dt |-> "aware", index |-> <<>>, rows |-> <<>>]

\* df.iloc[pos]: the rows at the positions of the sequence pos, labels kept
Take(df, pos) ==
    [df EXCEPT !.index = [k \in 1..Len(pos) |-> df.index[pos[k]]],
               !.rows  = [k \in 1..Len(pos) |-> df.rows[pos[k]]]]

\* the positions of a set, ascending, as a sequence
RECURSIVE Ascending(_)
Ascending(S) ==
    IF S = {} THEN <<>>
    ELSE LET m == CHOOSE x \in S : \A y \in S : x <= y
         IN  <<m>> \o Ascending(S \ {m})

\* df.drop_duplicates(): the first occurrence of every row is kept
DropDuplicates(df) ==
    Take(df, Ascending({i \in 1..Len(df.rows) :
                          \A j \in 1..(i - 1) : df.rows[j] # df.rows[i]}))

\* df.reset_index(drop=True)
ResetIndex(df) == [df EXCEPT !.index = RangeIndex(Len(df.rows))]

\* df.drop(columns=drop)
DropColumns(df, drop) ==
    [df EXCEPT !.cols = df.cols \ drop,
               !.rows = [k \in 1..Len(df.rows) |->
                           [c \in df.cols \ drop |-> df.rows[k][c]]]]

\* df.rename(columns={old: new})
RenameColumn(df, old, new) ==
    LET cs == (df.cols \ {old}) \cup {new}
    IN  [df EXCEPT !.cols = cs,
                   !.rows = [k \in 1..Len(df.rows) |->
                               [c \in cs |-> IF c = new THEN df.rows[k][old]
                                             ELSE df.rows[k][c]]]]

\* tz_convert("US/Pacific").tz_localize(None) of one UTC timestamp (hours):
\* the wall clock of the Pacific zone, eight hours behind UTC
ToPacific(t) == IF t = NaN THEN NaN ELSE t - 8

\* df[col] = df[col].dt.tz_convert("US/Pacific").dt.tz_localize(None)
TzConvertColumn(df, col) ==
    [df EXCEPT !.dt = "naive",
               !.rows = [k \in 1..Len(df.rows) |->
                           [df.rows[k] EXCEPT ![col] = ToPacific(@)]]]

\* sort_values: ascending, missing values last
Before(a, b) == IF a = NaN THEN FALSE ELSE IF b = NaN THEN TRUE ELSE a < b

\* df.sort_values(col): the rows in ascending order of col, ties in row order
SortValues(df, col) ==
    LET n == Len(df.rows)
        key(i) == df.rows[i][col]
        rank(i) == Cardinality({j \in 1..n :
                       Before(key(j), key(i))
                       \/ (~Before(key(i), key(j)) /\ j < i)}) + 1
    IN  Take(df, [k \in 1..n |-> CHOOSE i \in 1..n : rank(i) = k])

\* the order sort_values([by[1], by[2], ...]) puts two rows in: the first
\* column of by in which they differ decides
RECURSIVE RowBefore(_, _, _)
RowBefore(r, q, by) ==
    IF by = <<>> THEN FALSE
    ELSE IF Before(r[Head(by)], q[Head(by)]) THEN TRUE
    ELSE IF Before(q[Head(by)], r[Head(by)]) THEN FALSE
    ELSE RowBefore(r, q, Tail(by))

\* df.sort_values(by) for a list of columns: ties in row order
SortValuesBy(df, by) ==
    LET n == Len(df.rows)
        rank(i) == Cardinality({j \in 1..n :
                       RowBefore(df.rows[j], df.rows[i], by)
                       \/ (~RowBefore(df.rows[i], df.rows[j], by) /\ j < i)})
                   + 1
    IN  Take(df, [k \in 1..n |-> CHOOSE i \in 1..n : rank(i) = k])

\* pd.concat(frames, axis="index") of a non-empty list of frames
RECURSIVE ConcatIndex(_)
ConcatIndex(frames) ==
    IF frames = <<>> THEN <<>>
    ELSE Head(frames).index \o ConcatIndex(Tail(frames))

RECURSIVE ConcatRows(_, _)
ConcatRows(frames, cols) ==
    IF frames = <<>> THEN <<>>
    ELSE LET f == Head(frames)
         IN  [k \in 1..Len(f.rows) |->
                [c \in cols |-> IF c \in f.cols THEN f.rows[k][c] ELSE NaN]]
             \o ConcatRows(Tail(frames), cols)

Concat(frames) ==
    LET cols == UNION {frames[i].cols : i \in 1..Len(frames)}
        dts  == {frames[i].dt : i \in 1..Len(frames)}
    IN  [cols  |-> cols,
         dt    |-> IF Cardinality(dts) = 1 THEN CHOOSE d \in dts : TRUE
                   ELSE "object",
         index |-> ConcatIndex(frames),
         rows  |-> ConcatRows(frames, cols)]

(***************************************************************************)
(* Results of an operation that may raise: err is the exception class      *)
(* ("none" when it returned), what the names the exception message holds.  *)
(***************************************************************************)
Ok(df) == [err |-> "none", what |-> {}, df |-> df]

Raise(e, what) == [err |-> e, what |-> what, df |-> NoFrame]

(***************************************************************************)
(* The per-dataset normalizers (the process methods).                      *)
(***************************************************************************)
\* a process that resets the index and keeps every row
DataFetcherProcess_KeepsDuplicates(df) == Ok(ResetIndex(df))

\* DataFetcher.process: drop_duplicates, then reset_index(drop=True)
DataFetcherProcess(df) == Ok(ResetIndex(DropDuplicates(df)))

\* df[date].dt...: the lookup of the date column and of its .dt accessor;
\* tz is TRUE where tz_convert follows, which a tz-naive column refuses
DateColumnError(df, date, tz) ==
    IF date \notin df.cols THEN Raise("KeyError", {date})
    ELSE IF df.dt = "object" THEN Raise("AttributeError", {date})
    ELSE IF tz /\ df.dt = "naive" THEN Raise("TypeError", {date})
    ELSE Ok(df)

\* EnergyPriceFetcher.process
EnergyPriceDate == "intervalstarttime"

EnergyPriceToDrop ==
    {"intervalendtime", "opr_dt", "opr_hr", "opr_interval",
     "market_run_id", "price_unit"}

\* a process whose drop passes errors="ignore"
EnergyPriceFetcherProcess_IgnoresMissing(df) ==
    LET date == EnergyPriceDate
        chk  == DateColumnError(df, date, TRUE)
    IN  IF chk.err # "none" THEN chk
        ELSE Ok(SortValues(
                  RenameColumn(
                      DropColumns(TzConvertColumn(df, date), EnergyPriceToDrop),
                      date, "timestamp"),
                  "timestamp"))

EnergyPriceFetcherProcess(df) ==
    LET date == EnergyPriceDate
        chk  == DateColumnError(df, date, TRUE)
    IN  IF chk.err # "none" THEN chk
        ELSE IF ~(EnergyPriceToDrop \subseteq df.cols)
             THEN Raise("KeyError", EnergyPriceToDrop \ df.cols)
        ELSE Ok(SortValues(
                  RenameColumn(
                      DropColumns(TzConvertColumn(df, date), EnergyPriceToDrop),
                      date, "timestamp"),
                  "timestamp"))

\* LoadFetcher.process
LoadDate == "interval_start_local"

LoadToDrop == {"interval_start_utc", "interval_end_local", "interval_end_utc"}

LoadFetcherProcess(df) ==
    LET date == LoadDate
        chk  == DateColumnError(df, date, FALSE)
    IN  IF chk.err # "none" THEN chk
        ELSE IF ~(LoadToDrop \subseteq df.cols)
             THEN Raise("KeyError", LoadToDrop \ df.cols)
        ELSE Ok(RenameColumn(
                    DropColumns([df EXCEPT !.dt = "naive"], LoadToDrop),
                    date, "timestamp"))

\* IndexRevenueFetcher.process: the market column is cast to a category,
\* the rows are sorted by [timestamp, market], the date column is dropped
IndexRevenueDate == "timestamp"

\* a process that sorts by the timestamp alone
IndexRevenueFetcherProcess_SortsByDate(df) ==
    LET date == IndexRevenueDate
        chk  == DateColumnError(df, date, TRUE)
    IN  IF chk.err # "none" THEN chk
        ELSE IF "market" \notin df.cols THEN Raise("KeyError", {"market"})
        ELSE IF "date" \notin df.cols THEN Raise("KeyError", {"date"})
        ELSE Ok(DropColumns(
                    SortValuesBy(TzConvertColumn(df, date), <<date>>),
                    {"date"}))

IndexRevenueFetcherProcess(df) ==
    LET date == IndexRevenueDate
        chk  == DateColumnError(df, date, TRUE)
    IN  IF chk.err # "none" THEN chk
        ELSE IF "market" \notin df.cols THEN Raise("KeyError", {"market"})
        ELSE IF "date" \notin df.cols THEN Raise("KeyError", {"date"})
        ELSE Ok(DropColumns(
                    SortValuesBy(TzConvertColumn(df, date), <<date, "market">>),
                    {"date"}))

\* ResourceNodeFetcher.process = lambda _, df: df
ResourceNodeFetcherProcess(df) == Ok(df)

\* self.process(df), dispatched on the class of the fetcher
Process(cls, df) ==
    CASE cls = "DataFetcher"          -> DataFetcherProcess(df)
      [] cls = "EnergyPriceFetcher"   -> EnergyPriceFetcherProcess(df)
      [] cls = "LoadFetcher"          -> LoadFetcherProcess(df)
      [] cls = "IndexRevenueFetcher"  -> IndexRevenueFetcherProcess(df)
      [] cls = "ResourceNodeFetcher"  -> ResourceNodeFetcherProcess(df)

(***************************************************************************)
(* Files.  A file is what its bytes decode to: fmt is the encoding         *)
(* ("csv", "parquet", "excel", "zip", or "binary" for bytes no reader      *)
(* accepts), df the table it holds, members the entries of a zip archive.  *)
(* A directory entry is a name (stem and suffix) and a file.               *)
(***************************************************************************)
NoFile == [fmt |-> "absent", df |-> NoFrame, members |-> <<>>]

\* a to_parquet(path, index=False): the row labels are not stored
ToParquet_NoIndex(df) ==
    [fmt |-> "parquet", df |-> ResetIndex(df), members |-> <<>>]

\* df.to_parquet(path): the index and the dtypes are stored with the rows
ToParquet(df) == [fmt |-> "parquet", df |-> df, members |-> <<>>]

\* a read_parquet that does not restore the stored index
ReadParquet_FreshIndex(file) ==
    IF file.fmt = "parquet" THEN Ok(ResetIndex(file.df))
    ELSE Raise("ArrowInvalid", {})

\* pd.read_parquet(path)
ReadParquet(file) ==
    IF file.fmt = "parquet" THEN Ok(file.df) ELSE Raise("ArrowInvalid", {})

\* pd.read_csv(path): text cells, a fresh RangeIndex
ReadCsv(file) ==
    IF file.fmt = "csv"
    THEN Ok([ResetIndex(file.df) EXCEPT !.dt = "object"])
    ELSE Raise("ParserError", {})

\* pd.read_excel(path): date cells without a zone, a fresh RangeIndex
ReadExcel(file) ==
    IF file.fmt = "excel"
    THEN Ok([ResetIndex(file.df) EXCEPT !.dt = "naive"])
    ELSE Raise("ValueError", {})

\* DataFetcher.read_single_file: csv, then parquet, then excel
ReadSingleFile(entry) ==
    LET csv == ReadCsv(entry.body)
        pq  == ReadParquet(entry.body)
        xl  == ReadExcel(entry.body)
    IN  IF csv.err = "none" THEN csv
        ELSE IF pq.err = "none" THEN pq
        ELSE IF xl.err = "none" THEN xl
        ELSE Raise("TypeError", {entry.name.suffix})

\* is_ds_store: the last component of the path is ".DS_Store"
IsDsStore(entry) == entry.name.stem = ".DS_Store" /\ entry.name.suffix = ""

\* a vcat without the filter: every entry is handed to process
FilterDsStore_KeepsAll(iterable) == iterable

\* filter_ds_store
FilterDsStore(iterable) == SelectSeq(iterable, LAMBDA e : ~IsDsStore(e))

\* vcat: process every entry that is not a .DS_Store, in order, and
\* pd.concat the frames; the first exception raised ends it.  process is
\* the callable, given as a function on the entries of iterable.
VCat(iterable, process) ==
    LET files  == FilterDsStore(iterable)
        frames == [i \in 1..Len(files) |-> process[files[i]]]
        bad    == {i \in 1..Len(files) : frames[i].err # "none"}
    IN  IF bad # {} THEN frames[CHOOSE i \in bad : \A j \in bad : i <= j]
        ELSE IF Len(files) = 0 THEN Raise("ValueError", {})
        ELSE Ok(Concat([i \in 1..Len(files) |-> frames[i].df]))

\* DataFetcher.unzip
Unzip(entry) ==
    IF entry.body.fmt # "zip" THEN Raise("BadZipFile", {})
    ELSE VCat(entry.body.members,
              [e \in {entry.body.members[i] : i \in DOMAIN entry.body.members}
                  |-> ReadSingleFile(e)])

\* DataFetcher.unzip_or_read_single_file
UnzipOrReadSingleFile(entry) ==
    IF entry.name.suffix = ".zip" THEN Unzip(entry) ELSE ReadSingleFile(entry)

(***************************************************************************)
(* The source path: absent, a regular file, or a directory whose entries   *)
(* are listed in the order iterdir yields them.                            *)
(***************************************************************************)
NoSource == [kind |-> "absent", entries |-> <<>>]

\* DataFetcher.read_local_data: iterdir of a regular file raises
ReadLocalData(src) ==
    IF src.kind # "dir" THEN Raise("NotADirectoryError", {})
    ELSE VCat(src.entries,
              [e \in {src.entries[i] : i \in DOMAIN src.entries}
                  |-> UnzipOrReadSingleFile(e)])

\* a read that takes every directory, staged files or not, for an empty one
ReadBranch_DirIsRemote(src) == IF src.kind = "file" THEN "local" ELSE "remote"

\* a read that does not look whether the source directory has an entry
ReadBranch_AnyDirIsLocal(src) ==
    IF src.kind = "file" THEN "local"
    ELSE IF src.kind = "dir" THEN "local"
    ELSE "remote"

\* the branch DataFetcher.read takes
ReadBranch(src) ==
    IF src.kind = "file" THEN "local"
    ELSE IF src.kind = "dir" /\ Len(src.entries) > 0 THEN "local"
    ELSE "remote"

(***************************************************************************)
(* The raw tables a remote source returns or a user stages in source.      *)
(***************************************************************************)
\* a raw table with a RangeIndex: cells[k] is <<the date, the value>> of row k
RawFrame(cols, date, cells) ==
    [cols  |-> cols,
     dt    |-> "aware",
     index |-> RangeIndex(Len(cells)),
     rows  |-> [k \in 1..Len(cells) |->
                  [c \in cols |-> IF c = date THEN cells[k][1]
                                  ELSE IF c = "value" THEN cells[k][2]
                                  ELSE 0]]]

\* energy prices as sql.read_energy_prices returns them: unsorted, one row twice
RawEnergy ==
    RawFrame({EnergyPriceDate, "value"} \cup EnergyPriceToDrop,
             EnergyPriceDate, << <<20, 5>>, <<19, 7>>, <<20, 5>> >>)

\* the same query without its interval start column
RawEnergyNoDate ==
    RawFrame({"value"} \cup EnergyPriceToDrop, EnergyPriceDate, << <<0, 5>> >>)

\* the same query without its price_unit column
RawEnergyNoUnit ==
    RawFrame(({EnergyPriceDate, "value"} \cup EnergyPriceToDrop)
                 \ {"price_unit"},
             EnergyPriceDate, << <<21, 6>> >>)

\* a load table of the kind LoadFetcher.process expects
RawLoad ==
    RawFrame({LoadDate, "value"} \cup LoadToDrop,
             LoadDate, << <<12, 3>>, <<11, 4>> >>)

\* index revenues as sql.read_index_revenue returns them: two markets (the
\* cell is the rank of the market label in alphabetical order) at one
\* timestamp, in descending order
RawIndexRevenue ==
    [cols  |-> {IndexRevenueDate, "market", "date", "value"},
     dt    |-> "aware",
     index |-> RangeIndex(3),
     rows  |-> << [timestamp |-> 30, market |-> 2, date |-> 0, value |-> 5],
                  [timestamp |-> 30, market |-> 1, date |-> 0, value |-> 6],
                  [timestamp |-> 29, market |-> 2, date |-> 0, value |-> 7] >>]

RawTables ==
    {RawEnergy, RawEnergyNoDate, RawEnergyNoUnit, RawLoad, RawIndexRevenue}

\* the query parameters (*args, **kwargs) of a load call
Args == {"first_date=2025-01-01", "first_date=2025-06-01"}

\* what a call of self.sql_interface(*args, **kwargs) may do: return a raw
\* table or raise; the puller of LoadFetcher raises NotImplementedError
SqlInterfaceResults(cls) ==
    IF cls = "LoadFetcher" THEN {Raise("NotImplementedError", {})}
    ELSE {Ok(r) : r \in RawTables} \cup {Raise("Exception", {})}

(***************************************************************************)
(* The pools a load call may find.                                         *)
(***************************************************************************)
Name(stem, suffix) == [stem |-> stem, suffix |-> suffix]

Entry(name, body) == [name |-> name, body |-> body]

CsvFile(df) == [fmt |-> "csv", df |-> df, members |-> <<>>]

BinaryFile == [fmt |-> "binary", df |-> NoFrame, members |-> <<>>]

ZipFile(members) == [fmt |-> "zip", df |-> NoFrame, members |-> members]

DsStore == Entry(Name(".DS_Store", ""), BinaryFile)

\* self.source / "data.parquet"
SourceFile == Name("data", ".parquet")

StagedEntries ==
    { DsStore,
      Entry(Name("energy", ".parquet"), ToParquet(RawEnergy)),
      Entry(Name("nodate", ".parquet"), ToParquet(RawEnergyNoDate)),
      Entry(Name("load", ".parquet"), ToParquet(RawLoad)),
      Entry(Name("energy", ".csv"), CsvFile(RawEnergy)),
      Entry(Name("notes", ".bin"), BinaryFile),
      Entry(Name("bundle", ".zip"),
            ZipFile(<<DsStore,
                      Entry(Name("load", ".csv"), CsvFile(RawLoad))>>)) }

\* the listings of at most n distinct staged entries, in any iteration order
Listings(n) ==
    UNION {{s \in [1..k -> StagedEntries] :
               \A i, j \in 1..k : i # j => s[i].name # s[j].name} : k \in 0..n}

Dir(entries) == [kind |-> "dir", entries |-> entries]

Sources ==
    {NoSource, [kind |-> "file", entries |-> <<>>]}
        \cup {Dir(s) : s \in Listings(MaxFiles)}

Targets ==
    {NoFile, ToParquet(RawLoad),
     ToParquet(EnergyPriceFetcherProcess(RawEnergy).df)}

\* the fetcher classes and whether a sql_interface is bound: DataFetcher
\* takes it as an optional argument, every subclass binds its puller
Descriptors ==
    { [cls |-> "DataFetcher", sql_interface |-> "none"],
      [cls |-> "DataFetcher", sql_interface |-> "bound"],
      [cls |-> "EnergyPriceFetcher", sql_interface |-> "bound"],
      [cls |-> "LoadFetcher", sql_interface |-> "bound"],
      [cls |-> "IndexRevenueFetcher", sql_interface |-> "bound"],
      [cls |-> "ResourceNodeFetcher", sql_interface |-> "bound"] }

(***************************************************************************)
(* State.                                                                  *)
(***************************************************************************)
Callers == {"A", "B"}

\* the callers of the sequential specification
SeqCallers == {"A"}

VARIABLES
    self,         \* the dataset descriptor: cls and sql_interface
    source,       \* the pool: self.source
    target,       \* the pool: self.target
    pc,           \* where each caller is in load
    args,         \* the query parameters of each caller's load call
    df,           \* the local df of each caller's load call
    res,          \* what each caller's last load returned or raised
    prev,         \* what the load before that returned or raised
    entry,        \* the pool each caller's load call found
    log,          \* the operations each caller's load call has performed
    called,       \* the parameters sql_interface was last invoked with
    fetched,      \* the raw table sql_interface last returned
    nloads,       \* the load calls so far
    fetchCalls,   \* the invocations of sql_interface so far
    fetchReturns, \* those that returned a table
    processCalls, \* the invocations of process so far
    processReturns, \* those that returned a table
    call,         \* the call of a statistics function: its name and arguments
    ret           \* what that call returned or raised

vars == <<self, source, target, pc, args, df, res, prev, entry, log, called,
          fetched, nloads, fetchCalls, fetchReturns, processCalls,
          processReturns, call, ret>>

\* no statistics function has been called
NoCall == [fn |-> "none"]

Init ==
    /\ self \in Descriptors
    /\ source \in Sources
    /\ target \in Targets
    /\ pc = [c \in Callers |-> "idle"]
    /\ args = [c \in Callers |-> "none"]
    /\ df = [c \in Callers |-> NoFrame]
    /\ res = [c \in Callers |-> Ok(NoFrame)]
    /\ prev = [c \in Callers |-> Ok(NoFrame)]
    /\ entry = [c \in Callers |-> [source |-> source, target |-> target]]
    /\ log = [c \in Callers |-> <<>>]
    /\ called = "none"
    /\ fetched = NoFrame
    /\ nloads = 0
    /\ fetchCalls = 0
    /\ fetchReturns = 0
    /\ processCalls = 0
    /\ processReturns = 0
    /\ call = NoCall
    /\ ret = NoCall

(***************************************************************************)
(* DataFetcher.load, one action per step.                                  *)
(***************************************************************************)
\* the exception of a load call reaches its caller
Raised(c, r) ==
    /\ res' = [res EXCEPT ![c] = r]
    /\ pc' = [pc EXCEPT ![c] = "done"]

Did(c, op) == log' = [log EXCEPT ![c] = Append(@, op)]

Count(ops, op) == Cardinality({i \in 1..Len(ops) : ops[i] = op})

\* a load that never finds its target
Exists_Never(file) == FALSE

\* self.target.exists()
Exists(file) == file.fmt # "absent"

\* load(*args, **kwargs): an existing target is read and returned
Load(c, a) ==
    /\ pc[c] \in {"idle", "done"}
    /\ nloads < MaxLoads
    /\ nloads' = nloads + 1
    /\ args' = [args EXCEPT ![c] = a]
    /\ prev' = [prev EXCEPT ![c] = res[c]]
    /\ entry' = [entry EXCEPT ![c] = [source |-> source, target |-> target]]
    /\ df' = [df EXCEPT ![c] = NoFrame]
    /\ IF Exists(target)
       THEN /\ res' = [res EXCEPT ![c] = ReadParquet(target)]
            /\ log' = [log EXCEPT ![c] = <<"read_target">>]
            /\ pc' = [pc EXCEPT ![c] = "done"]
       ELSE /\ res' = [res EXCEPT ![c] = Ok(NoFrame)]
            /\ log' = [log EXCEPT ![c] = <<>>]
            /\ pc' = [pc EXCEPT ![c] = "read"]
    /\ UNCHANGED <<call, ret, self, source, target, called, fetched, fetchCalls,
                   fetchReturns, processCalls, processReturns>>

\* self.source.mkdir(parents=True, exist_ok=True)
Mkdir(src) == IF src.kind = "absent" THEN Dir(<<>>) ELSE src

\* a read that creates the source directory before it looks for the
\* sql_interface
Read_MkdirFirst(c) ==
    /\ pc[c] = "read"
    /\ IF ReadBranch(source) = "local"
       THEN /\ pc' = [pc EXCEPT ![c] = "local"]
            /\ UNCHANGED <<source, res, log>>
       ELSE /\ source' = Mkdir(source)
            /\ IF self.sql_interface = "none"
               THEN /\ Raised(c, Raise("RuntimeError",
                                       {"pull the data manually"}))
                    /\ UNCHANGED log
               ELSE /\ Did(c, "mkdir")
                    /\ pc' = [pc EXCEPT ![c] = "remote"]
                    /\ UNCHANGED res
    /\ UNCHANGED <<call, ret, self, target, args, df, prev, entry, called, fetched,
                   nloads, fetchCalls, fetchReturns, processCalls,
                   processReturns>>

\* read: the choice of the branch; without a sql_interface the remote branch
\* raises RuntimeError, with one it creates the source directory
Read(c) ==
    /\ pc[c] = "read"
    /\ IF ReadBranch(source) = "local"
       THEN /\ pc' = [pc EXCEPT ![c] = "local"]
            /\ UNCHANGED <<source, res, log>>
       ELSE IF self.sql_interface = "none"
       THEN /\ Raised(c, Raise("RuntimeError", {"pull the data manually"}))
            /\ UNCHANGED <<source, log>>
       ELSE /\ source' = Mkdir(source)
            /\ Did(c, "mkdir")
            /\ pc' = [pc EXCEPT ![c] = "remote"]
            /\ UNCHANGED res
    /\ UNCHANGED <<call, ret, self, target, args, df, prev, entry, called, fetched,
                   nloads, fetchCalls, fetchReturns, processCalls,
                   processReturns>>

\* a read that calls sql_interface again when the call raised
Fetch_Retries(c) ==
    /\ pc[c] = "remote"
    /\ fetchCalls' = fetchCalls + 1
    /\ called' = args[c]
    /\ Did(c, "fetch")
    /\ \E r \in SqlInterfaceResults(self.cls) :
         IF r.err = "none"
         THEN /\ df' = [df EXCEPT ![c] = r.df]
              /\ fetched' = r.df
              /\ fetchReturns' = fetchReturns + 1
              /\ pc' = [pc EXCEPT ![c] = "write_source"]
              /\ UNCHANGED res
         ELSE IF Count(log[c], "fetch") = 0
         THEN UNCHANGED <<pc, res, df, fetched, fetchReturns>>
         ELSE /\ Raised(c, r)
              /\ UNCHANGED <<df, fetched, fetchReturns>>
    /\ UNCHANGED <<call, ret, self, source, target, args, prev, entry, nloads,
                   processCalls, processReturns>>

\* df = self.sql_interface(*args, **kwargs)
Fetch(c) ==
    /\ pc[c] = "remote"
    /\ fetchCalls' = fetchCalls + 1
    /\ called' = args[c]
    /\ Did(c, "fetch")
    /\ \E r \in SqlInterfaceResults(self.cls) :
         IF r.err = "none"
         THEN /\ df' = [df EXCEPT ![c] = r.df]
              /\ fetched' = r.df
              /\ fetchReturns' = fetchReturns + 1
              /\ pc' = [pc EXCEPT ![c] = "write_source"]
              /\ UNCHANGED res
         ELSE /\ Raised(c, r)
              /\ UNCHANGED <<df, fetched, fetchReturns>>
    /\ UNCHANGED <<call, ret, self, source, target, args, prev, entry, nloads,
                   processCalls, processReturns>>

\* path.write of a directory entry: a file of that name is replaced
WriteEntry(src, name, file) ==
    IF \E i \in 1..Len(src.entries) : src.entries[i].name = name
    THEN Dir([i \in 1..Len(src.entries) |->
                IF src.entries[i].name = name THEN Entry(name, file)
                ELSE src.entries[i]])
    ELSE Dir(Append(src.entries, Entry(name, file)))

\* a read that does not persist the raw result before reading source back
WriteSource_Skipped(c) ==
    /\ pc[c] = "write_source"
    /\ pc' = [pc EXCEPT ![c] = "local"]
    /\ UNCHANGED <<call, ret, self, source, target, args, df, res, prev, entry, log,
                   called, fetched, nloads, fetchCalls, fetchReturns,
                   processCalls, processReturns>>

\* a read that persists the raw result with df.to_csv
WriteSource_AsCsv(c) ==
    /\ pc[c] = "write_source"
    /\ source' = WriteEntry(source, SourceFile, CsvFile(df[c]))
    /\ Did(c, "write_source")
    /\ pc' = [pc EXCEPT ![c] = "local"]
    /\ UNCHANGED <<call, ret, self, target, args, df, res, prev, entry, called, fetched,
                   nloads, fetchCalls, fetchReturns, processCalls,
                   processReturns>>

\* a read that returns the fetched table without persisting it
WriteSource_ReturnsFetched(c) ==
    /\ pc[c] = "write_source"
    /\ pc' = [pc EXCEPT ![c] = "process"]
    /\ UNCHANGED <<call, ret, self, source, target, args, df, res, prev, entry,
                   log, called, fetched, nloads, fetchCalls, fetchReturns,
                   processCalls, processReturns>>

\* df.to_parquet(source_file)
WriteSource(c) ==
    /\ pc[c] = "write_source"
    /\ source' = WriteEntry(source, SourceFile, ToParquet(df[c]))
    /\ Did(c, "write_source")
    /\ pc' = [pc EXCEPT ![c] = "local"]
    /\ UNCHANGED <<call, ret, self, target, args, df, res, prev, entry, called, fetched,
                   nloads, fetchCalls, fetchReturns, processCalls,
                   processReturns>>

\* return self.read_local_data()
ReadLocal(c) ==
    /\ pc[c] = "local"
    /\ Did(c, "read_source")
    /\ LET r == ReadLocalData(source)
       IN  IF r.err = "none"
           THEN /\ df' = [df EXCEPT ![c] = r.df]
                /\ pc' = [pc EXCEPT ![c] = "process"]
                /\ UNCHANGED res
           ELSE /\ Raised(c, r)
                /\ UNCHANGED df
    /\ UNCHANGED <<call, ret, self, source, target, args, prev, entry, called, fetched,
                   nloads, fetchCalls, fetchReturns, processCalls,
                   processReturns>>

\* df = self.process(df)
Normalize(c) ==
    /\ pc[c] = "process"
    /\ processCalls' = processCalls + 1
    /\ Did(c, "process")
    /\ LET r == Process(self.cls, df[c])
       IN  IF r.err = "none"
           THEN /\ df' = [df EXCEPT ![c] = r.df]
                /\ processReturns' = processReturns + 1
                /\ pc' = [pc EXCEPT ![c] = "write_target"]
                /\ UNCHANGED res
           ELSE /\ Raised(c, r)
                /\ UNCHANGED <<df, processReturns>>
    /\ UNCHANGED <<call, ret, self, source, target, args, prev, entry, called, fetched,
                   nloads, fetchCalls, fetchReturns>>

\* a load that returns df without persisting it
WriteTarget_Skipped(c) ==
    /\ pc[c] = "write_target"
    /\ res' = [res EXCEPT ![c] = Ok(df[c])]
    /\ pc' = [pc EXCEPT ![c] = "done"]
    /\ UNCHANGED <<call, ret, self, source, target, args, df, prev, entry, log, called,
                   fetched, nloads, fetchCalls, fetchReturns, processCalls,
                   processReturns>>

\* a load whose write leaves a target that another caller wrote meanwhile
WriteTarget_FirstWins(c) ==
    /\ pc[c] = "write_target"
    /\ target' = IF target.fmt # "absent" THEN target ELSE ToParquet(df[c])
    /\ Did(c, "write_target")
    /\ res' = [res EXCEPT ![c] = Ok(df[c])]
    /\ pc' = [pc EXCEPT ![c] = "done"]
    /\ UNCHANGED <<call, ret, self, source, args, df, prev, entry, called, fetched,
                   nloads, fetchCalls, fetchReturns, processCalls,
                   processReturns>>

\* df.to_parquet(self.target); return df
WriteTarget(c) ==
    /\ pc[c] = "write_target"
    /\ target' = ToParquet(df[c])
    /\ Did(c, "write_target")
    /\ res' = [res EXCEPT ![c] = Ok(df[c])]
    /\ pc' = [pc EXCEPT ![c] = "done"]
    /\ UNCHANGED <<call, ret, self, source, args, df, prev, entry, called, fetched,
                   nloads, fetchCalls, fetchReturns, processCalls,
                   processReturns>>

Step(c) ==
    \/ \E a \in Args : Load(c, a)
    \/ Read(c)
    \/ Fetch(c)
    \/ WriteSource(c)
    \/ ReadLocal(c)
    \/ Normalize(c)
    \/ WriteTarget(c)

\* load calls made one after the other
Next == \E c \in SeqCallers : Step(c)

Spec == Init /\ [][Next]_vars

(***************************************************************************)
(* Two callers run load on the same descriptor and pool at the same time.  *)
(* load takes no lock: the steps of the two calls interleave freely, each  *)
(* file operation being one step.  The cache starts empty.                 *)
(***************************************************************************)
InitEmptyCache ==
    /\ Init
    /\ source \in {NoSource, Dir(<<>>)}
    /\ target = NoFile

NextConcurrent == \E c \in Callers : Step(c)

SpecConcurrent == InitEmptyCache /\ [][NextConcurrent]_vars

(***************************************************************************)
(* Time-series statistics: prices.negative_duration and                    *)
(* tb_spreads.TopBottomSpread.  A series (pandas.Series) is the kind of    *)
(* its index and its samples in index order; a sample is its time t in     *)
(* hours since midnight of the first day, its value v, and nan, TRUE for   *)
(* a missing value.                                                        *)
(***************************************************************************)
\* the samples of the longest series called with
MaxSamples == 4

\* the extreme observations per side (tb) called with
MaxCount == 2

\* the observations of the longest window called with
MaxWindow == 3

HoursPerDay == 24

\* the calendar day a timestamp falls on
DayOf(t) == t \div HoursPerDay

\* series < 0, one element: a comparison with NaN is False
Lt0_NaNIsNegative(x) == x.nan \/ x.v < 0

Lt0(x) == ~x.nan /\ x.v < 0

\* .astype(int) of a boolean
AsTypeInt(b) == IF b THEN 1 ELSE 0

\* (series < 0).astype(int): the samples with 1 for a negative value, else 0
Mask(series) ==
    [k \in 1..Len(series.samples) |->
        [t |-> series.samples[k].t, v |-> AsTypeInt(Lt0(series.samples[k]))]]

\* a resample that makes a bin of each day that has a sample
Bins_SampledDays(series) ==
    {DayOf(series.samples[k].t) : k \in 1..Len(series.samples)}

\* .resample("1d"): one bin per calendar day from the day of the first
\* sample to the day of the last one, the days without a sample included
Bins(series) ==
    LET days == {DayOf(series.samples[k].t) : k \in 1..Len(series.samples)}
    IN  {d \in 0..(MaxSamples * 2 + 2) :
            /\ \E lo \in days : lo <= d
            /\ \E hi \in days : d <= hi}

\* the values of the bin of day d, in index order
Bucket(mask, d) ==
    LET sel == SelectSeq(mask, LAMBDA m : DayOf(m.t) = d)
    IN  [k \in 1..Len(sel) |-> sel[k].v]

\* np.flatnonzero(cond): the 0-based positions, ascending, where cond holds
FlatNonZero(arr, x) == Ascending({i - 1 : i \in {j \in 1..Len(arr) : arr[j] = x}})

\* a helper that returns the length of the first run of ones
DailyNegDuration_FirstRun(seq) ==
    LET padded == <<0>> \o seq \o <<0>>
        diffed == [i \in 1..(Len(padded) - 1) |-> padded[i + 1] - padded[i]]
        starts == FlatNonZero(diffed, 1)
        ends   == FlatNonZero(diffed, -1)
    IN  IF Len(starts) = 0 THEN 0 ELSE ends[1] - starts[1]

\* _daily_neg_duration: pad with zeros, diff, pair the k-th start with the
\* k-th end, (ends - starts).max(initial=0)
DailyNegDuration(seq) ==
    LET padded == <<0>> \o seq \o <<0>>
        diffed == [i \in 1..(Len(padded) - 1) |-> padded[i + 1] - padded[i]]
        starts == FlatNonZero(diffed, 1)
        ends   == FlatNonZero(diffed, -1)
        lens   == {ends[k] - starts[k] : k \in 1..Len(starts)} \cup {0}
    IN  CHOOSE m \in lens : \A l \in lens : l <= m

\* a call that returned val, or raised err
Returned(val) == [err |-> "none", val |-> val]

Raised_(err) == [err |-> err, val |-> <<>>]

\* negative_duration: resample refuses an index that is not a DatetimeIndex
\* with TypeError
NegativeDuration(series) ==
    IF series.index # "DatetimeIndex" THEN Raised_("TypeError")
    ELSE Returned([d \in Bins(series) |->
                      DailyNegDuration(Bucket(Mask(series), d))])

\* TopBottomSpread.__init__
TopBottomSpreadInit(tb, resolution) ==
    [tb           |-> tb,
     resolution   |-> resolution,
     obs_per_hour |-> 60 \div resolution,
     n            |-> tb * (60 \div resolution)]

\* np.sort(obj): ascending
NpSort(obj) ==
    LET n == Len(obj)
        rank(i) == Cardinality({j \in 1..n :
                       obj[j] < obj[i] \/ (obj[j] = obj[i] /\ j < i)}) + 1
    IN  [k \in 1..n |-> obj[CHOOSE i \in 1..n : rank(i) = k]]

\* arr.sum()
RECURSIVE Sum(_)
Sum(arr) == IF arr = <<>> THEN 0 ELSE Head(arr) + Sum(Tail(arr))

\* a slice whose start before the first element selects nothing
SliceBound_StartPastEndIsEmpty(i, len) ==
    IF i < 0 THEN (IF len + i < 0 THEN len ELSE len + i)
    ELSE IF i > len THEN len ELSE i

\* a slice bound as Python normalizes it: a negative bound counts from the
\* end, and every bound is clipped to 0..len
SliceBound(i, len) ==
    IF i < 0 THEN (IF len + i < 0 THEN 0 ELSE len + i)
    ELSE IF i > len THEN len ELSE i

\* arr[start:]
SliceFrom(arr, start) ==
    SubSeq(arr, SliceBound(start, Len(arr)) + 1, Len(arr))

\* arr[:stop]
SliceTo(arr, stop) == SubSeq(arr, 1, SliceBound(stop, Len(arr)))

\* TopBottomSpread.__call__
TopBottomSpreadCall(tbs, obj) ==
    LET arranged == NpSort(obj)
    IN  Sum(SliceFrom(arranged, 0 - tbs.n)) - Sum(SliceTo(arranged, tbs.n))

(***************************************************************************)
(* The calls of the statistics functions.                                  *)
(***************************************************************************)
\* a value below zero, zero, a value above zero, a missing value
SampleValues ==
    {[v |-> -2, nan |-> FALSE], [v |-> 0, nan |-> FALSE],
     [v |-> 3, nan |-> FALSE], [v |-> 0, nan |-> TRUE]}

\* the next sample is an hour later, at midnight of the next day, or at
\* midnight of the day after the next
Gaps == {"hour", "day", "skip"}

Advance(t, gap) ==
    CASE gap = "hour" -> t + 1
      [] gap = "day"  -> HoursPerDay * (DayOf(t) + 1)
      [] gap = "skip" -> HoursPerDay * (DayOf(t) + 2)

RECURSIVE TimeOf(_, _)
TimeOf(gaps, k) == IF k = 1 THEN 0 ELSE Advance(TimeOf(gaps, k - 1), gaps[k - 1])

\* the series of the values vals, the first at hour 0, gaps[k] between
\* sample k and sample k + 1
MakeSeries(index, vals, gaps) ==
    [index   |-> index,
     samples |-> [k \in 1..Len(vals) |->
                    [t |-> TimeOf(gaps, k), v |-> vals[k].v,
                     nan |-> vals[k].nan]]]

IndexKinds == {"DatetimeIndex", "RangeIndex"}

\* the series of the docstring of negative_duration: six hourly values
\* from 2025-06-01 00:00
ExampleSeries ==
    [index   |-> "DatetimeIndex",
     samples |-> [k \in 1..6 |->
                    [t |-> k - 1, v |-> <<-4, -1, 3, -6, -2, -5>>[k],
                     nan |-> FALSE]]]

Resolutions == {15, 30, 45, 60, 120}

WindowValues == {-5, 2, 10}

ExampleWindow == <<10, 2, 30, 4, 50, 6>>

Windows ==
    {ExampleWindow} \cup UNION {[1..n -> WindowValues] : n \in 0..MaxWindow}

(***************************************************************************)
(* utils.aggr_services.  A string is the sequence of its words, which      *)
(* single spaces separate: "ifm energy" is <<"ifm", "energy">>, "" is <<>>. *)
(***************************************************************************)
MaxLabels == 2

\* np.char.partition(s, " "): what precedes the first space, the space,
\* what follows it
Partition(s) ==
    IF s = <<>> THEN <<(<<>>), "", (<<>>)>>
    ELSE <<(<<s[1]>>), (IF Len(s) > 1 THEN " " ELSE ""), Tail(s)>>

\* market + "_energy"
PlusEnergy(market) ==
    IF market = <<>> THEN <<"_energy">>
    ELSE CASE market[1] = "ifm" -> <<"ifm_energy">>
           [] market[1] = "fmm" -> <<"fmm_energy">>
           [] market[1] = "rtd" -> <<"rtd_energy">>
           [] market[1] = "ruc" -> <<"ruc_energy">>
           [] market[1] = "energy" -> <<"energy_energy">>

\* mapped[mask] = value
MaskAssign(mapped, mask, value) ==
    [i \in DOMAIN mapped |-> IF mask[i] THEN value ELSE mapped[i]]

\* an aggregation in which lumping the real-time markets wins over
\* collapsing all energy
AggrServices_RtEnergyFirst(services, agg_energy, agg_rt_energy, agg_as) ==
    LET market == [i \in DOMAIN services |-> Partition(services[i])[1]]
        service == [i \in DOMAIN services |-> Partition(services[i])[3]]
        is_energy == [i \in DOMAIN services |-> service[i] = <<"energy">>]
        mapped == [i \in DOMAIN services |->
                     IF is_energy[i] THEN PlusEnergy(market[i]) ELSE service[i]]
        with_as == IF agg_as
                   THEN MaskAssign(mapped,
                            [i \in DOMAIN services |-> ~is_energy[i]], <<"as">>)
                   ELSE mapped
        rt_energy == [i \in DOMAIN services |->
                        is_energy[i] /\ market[i] # <<"ifm">>]
        da_energy == [i \in DOMAIN services |->
                        is_energy[i] /\ market[i] = <<"ifm">>]
    IN  IF agg_rt_energy
        THEN MaskAssign(MaskAssign(with_as, rt_energy, <<"rt_energy">>),
                        da_energy, <<"da_energy">>)
        ELSE IF agg_energy THEN MaskAssign(with_as, is_energy, <<"energy">>)
        ELSE with_as

AggrServices(services, agg_energy, agg_rt_energy, agg_as) ==
    LET market == [i \in DOMAIN services |-> Partition(services[i])[1]]
        service == [i \in DOMAIN services |-> Partition(services[i])[3]]
        is_energy == [i \in DOMAIN services |-> service[i] = <<"energy">>]
        mapped == [i \in DOMAIN services |->
                     IF is_energy[i] THEN PlusEnergy(market[i]) ELSE service[i]]
        with_as == IF agg_as
                   THEN MaskAssign(mapped,
                            [i \in DOMAIN services |-> ~is_energy[i]], <<"as">>)
                   ELSE mapped
        rt_energy == [i \in DOMAIN services |->
                        is_energy[i] /\ market[i] # <<"ifm">>]
        da_energy == [i \in DOMAIN services |->
                        is_energy[i] /\ market[i] = <<"ifm">>]
    IN  IF agg_energy THEN MaskAssign(with_as, is_energy, <<"energy">>)
        ELSE IF agg_rt_energy
        THEN MaskAssign(MaskAssign(with_as, rt_energy, <<"rt_energy">>),
                        da_energy, <<"da_energy">>)
        ELSE with_as

\* the market labels of the index revenue table, and two that do not have
\* the two-word form
MarketLabels ==
    {<<"ifm", "energy">>, <<"fmm", "energy">>, <<"rtd", "energy">>,
     <<"ruc", "energy">>, <<"ifm", "regup">>, <<"rtd", "spin">>,
     <<"ifm", "reg", "up">>, <<"energy">>}

(***************************************************************************)
(* The fetch_* functions of data.py that take a market or a kind.  What    *)
(* such a call returns here is the sequence of the fetchers it loaded, the *)
(* only statements of these functions that touch the cache or a fetch      *)
(* function.                                                               *)
(***************************************************************************)
\* cls(market): constructing a fetcher sets its paths and nothing else
Fetcher(cls, market) == [cls |-> cls, market |-> market]

\* fetcher.load(...) of each fetcher of loads in turn; the load at position
\* fails raises, none does when fails is 0
LoadEach(loads, fails) ==
    IF fails \in 1..Len(loads)
    THEN [err |-> "Exception", val |-> SubSeq(loads, 1, fails)]
    ELSE Returned(loads)

\* fetch_asset_database: the master list, merged with the resource nodes
FetchAssetDatabase ==
    <<Fetcher("MasterListFetcher", ""), Fetcher("ResourceNodeFetcher", "")>>

FetchAsPrices(market, fails) ==
    IF market = "da" \/ market = "rt"
    THEN LoadEach(<<Fetcher("AncillaryServicePriceFetcher", market)>>, fails)
    ELSE Raised_("ValueError")

FetchEnergyPricesNodal(market, fails) ==
    IF market = "da" \/ market = "rt"
    THEN LoadEach(FetchAssetDatabase
                    \o <<Fetcher("NodalEnergyPriceFetcher", market)>>, fails)
    ELSE Raised_("ValueError")

FetchEnergyPrices(market, nodal, fails) ==
    IF market = "da" \/ market = "rt"
    THEN IF nodal THEN FetchEnergyPricesNodal(market, fails)
         ELSE LoadEach(<<Fetcher("EnergyPriceFetcher", market)>>, fails)
    ELSE Raised_("ValueError")

\* a fetch_generation that takes every kind but "renewable" for "all"
FetchGeneration_DefaultsToAll(kind, fails) ==
    IF kind = "renewable"
    THEN LoadEach(<<Fetcher("RenewableGenerationFetcher", "")>>, fails)
    ELSE LoadEach(<<Fetcher("GenerationFuelMixFetcher", "")>>, fails)

FetchGeneration(kind, fails) ==
    IF kind = "all"
    THEN LoadEach(<<Fetcher("GenerationFuelMixFetcher", "")>>, fails)
    ELSE IF kind = "renewable"
    THEN LoadEach(<<Fetcher("RenewableGenerationFetcher", "")>>, fails)
    ELSE Raised_("ValueError")

\* the market and kind arguments called with
MarketArgs == {"da", "rt", "DA", "rtm", "ifm", ""}

KindArgs == {"all", "renewable", "solar", "ALL", ""}

\* the most fetchers one call loads: those of fetch_energy_prices_nodal
MaxFetchers == 3

(***************************************************************************)
(* oasis.OasisInterface.  What pull returns here is the sequence of the    *)
(* URLs requested of the OASIS server.                                     *)
(***************************************************************************)
\* OasisInterface.queries
Queries ==
    [resource_node |-> "ATL_RESOURCE", master_list |-> "ATL_GEN_CAP_LST"]

\* OasisInterface.query_versions
QueryVersions == [resource_node |-> "1", master_list |-> "4"]

\* a date argument: the empty string, a text pandas parses to the day day,
\* a text it does not parse
EmptyDate == [kind |-> "empty", day |-> 0]

Date(day) == [kind |-> "date", day |-> day]

Unparsable == [kind |-> "unparsable", day |-> 0]

\* _caiso_strftime
CaisoStrftime(day) == [ymd |-> day, time |-> "T07:00-0000"]

\* _format_caiso_dates: pd.to_datetime raises on a text that is no date;
\* "" parses to NaT, which has no strftime
FormatCaisoDates(first_date, final_date) ==
    IF first_date.kind = "unparsable" THEN Raised_("ValueError")
    ELSE IF final_date.kind = "unparsable" THEN Raised_("ValueError")
    ELSE IF first_date.kind = "empty" THEN Raised_("ValueError")
    ELSE Returned(<<CaisoStrftime(first_date.day),
                    CaisoStrftime(IF final_date.kind = "empty"
                                  THEN first_date.day + 1
                                  ELSE final_date.day)>>)

\* a _create_url that passes an unregistered name on to the server
CreateUrl_PassesUnknown(query, startdatetime, enddatetime) ==
    Returned([queryname |-> IF query \in DOMAIN Queries THEN Queries[query]
                            ELSE query,
              version |-> IF query \in DOMAIN QueryVersions
                          THEN QueryVersions[query] ELSE "1",
              startdatetime |-> startdatetime, enddatetime |-> enddatetime])

\* _create_url
CreateUrl(query, startdatetime, enddatetime) ==
    IF query \notin DOMAIN Queries THEN Raised_("KeyError")
    ELSE IF query \notin DOMAIN QueryVersions THEN Raised_("KeyError")
    ELSE Returned([queryname |-> Queries[query],
                   version |-> QueryVersions[query],
                   startdatetime |-> startdatetime,
                   enddatetime |-> enddatetime])

\* _access_oasis: requests.get(url), then the archive is read; response is
\* how the request ends
AccessOasis(url, response) ==
    [err |-> IF response = "zip" THEN "none" ELSE response, val |-> <<url>>]

\* pull
Pull(query, first_date, final_date, response) ==
    LET dates == FormatCaisoDates(first_date, final_date)
    IN  IF dates.err # "none" THEN dates
        ELSE LET access_point == CreateUrl(query, dates.val[1], dates.val[2])
             IN  IF access_point.err # "none" THEN access_point
                 ELSE AccessOasis(access_point.val, response)

\* the arguments pull is called with
QueryArgs == {"resource_node", "master_list", "energy_prices", ""}

MaxDay == 2

DateArgs == {EmptyDate, Unparsable} \cup {Date(d) : d \in 1..MaxDay}

Responses == {"zip", "ConnectionError", "BadZipFile"}

(***************************************************************************)
(* data.fetch_index.  The revenue table is the function from its           *)
(* (timestamp, market) keys to the revenue of the row; the capacity table  *)
(* the function from its dates, as day numbers, to the capacity of the     *)
(* denominator column.  Timestamps are in hours.                           *)
(***************************************************************************)
MaxRevRows == 2

\* groupby(...)["revenue"].sum() of one group: the sum over the rows keys
RECURSIVE GroupSum(_, _)
GroupSum(keys, rev) ==
    IF keys = {} THEN 0
    ELSE LET k == CHOOSE x \in keys : TRUE
         IN  rev[k] + GroupSum(keys \ {k}, rev)

\* rev["service"] = utils.aggr_services(rev.market, **kwargs), one row
ServiceColumn(market, agg_energy) ==
    AggrServices(<<market>>, agg_energy, TRUE, TRUE)[1]

\* groupby(["timestamp", "service"]).sum().pivot(...).fillna(0.0): one row
\* per timestamp, one column per service, 0.0 where no row of the group
\* exists
Pivot(rev, agg_energy) ==
    LET timestamps == {k[1] : k \in DOMAIN rev}
        services == {ServiceColumn(k[2], agg_energy) : k \in DOMAIN rev}
    IN  [t \in timestamps |->
           [sv \in services |->
              GroupSum({k \in DOMAIN rev :
                          /\ k[1] = t
                          /\ ServiceColumn(k[2], agg_energy) = sv}, rev)]]

\* a floor that rounds to the nearest day
Floor_Nearest(t) == (t + (HoursPerDay \div 2)) \div HoursPerDay

\* out.index.floor("D")
Floor(t) == DayOf(t)

\* out.join(cap.set_index("date")[denom], on=out.index.floor("D")): the
\* capacity of the day of each timestamp, NaN where cap has no such date
Missing == [kind |-> "nan"]

JoinCapacity(timestamps, cap) ==
    [t \in timestamps |->
       IF Floor(t) \in DOMAIN cap THEN [kind |-> "num", v |-> cap[Floor(t)]]
       ELSE Missing]

\* x / c of two floats: the quotient as its numerator and denominator, NaN
\* for a NaN operand and for 0 / 0, an infinity for any other x / 0
Div(x, c) ==
    IF c.kind = "nan" THEN [kind |-> "nan"]
    ELSE IF c.v = 0
    THEN (IF x = 0 THEN [kind |-> "nan"]
          ELSE [kind |-> "inf", negative |-> x < 0])
    ELSE [kind |-> "num", num |-> x, den |-> c.v]

\* fetch_index(norm, agg_energy=...)
FetchIndex(rev, cap, agg_energy) ==
    LET out == Pivot(rev, agg_energy)
        denom == JoinCapacity(DOMAIN out, cap)
    IN  Returned([t \in DOMAIN out |->
                    [sv \in DOMAIN out[t] |-> Div(out[t][sv], denom[t])]])

\* the tables fetch_index is called on
Timestamps == {1, 23, 25}

IndexMarkets == {<<"ifm", "energy">>, <<"rtd", "energy">>, <<"fmm", "energy">>}

Revenues == {-3, 0, 6}

CapacityDays == {0, 1}

Capacities == {0, 2}

\* the variables of the cache
loadVars == <<self, source, target, pc, args, df, res, prev, entry, log,
              called, fetched, nloads, fetchCalls, fetchReturns,
              processCalls, processReturns>>

\* negative_duration(series)
CallNegativeDurationOf(series) ==
    /\ call' = [fn |-> "negative_duration", series |-> series]
    /\ ret' = NegativeDuration(series)
    /\ UNCHANGED loadVars

\* the series called with: that of the docstring, and every series of at
\* most MaxSamples samples
CallNegativeDuration ==
    /\ call = NoCall
    /\ \/ CallNegativeDurationOf(ExampleSeries)
       \/ \E n \in 1..MaxSamples, i \in IndexKinds :
            \E vals \in [1..n -> SampleValues],
               gaps \in [1..(n - 1) -> Gaps] :
               CallNegativeDurationOf(MakeSeries(i, vals, gaps))

\* TopBottomSpread(tb, resolution)(obj)
CallTopBottomSpread ==
    /\ call = NoCall
    /\ \E tb \in 0..MaxCount, resolution \in Resolutions, obj \in Windows :
         /\ call' = [fn |-> "TopBottomSpread", tb |-> tb,
                     resolution |-> resolution, obj |-> obj]
         /\ ret' = Returned(TopBottomSpreadCall(
                                TopBottomSpreadInit(tb, resolution), obj))
    /\ UNCHANGED loadVars

\* aggr_services(services, agg_energy, agg_rt_energy, agg_as) of at least
\* one and at most MaxLabels labels
CallAggrServices ==
    /\ call = NoCall
    /\ \E n \in 1..MaxLabels, agg_energy \in BOOLEAN,
          agg_rt_energy \in BOOLEAN, agg_as \in BOOLEAN :
         \E services \in [1..n -> MarketLabels] :
            /\ call' = [fn |-> "aggr_services", services |-> services,
                        agg_energy |-> agg_energy,
                        agg_rt_energy |-> agg_rt_energy, agg_as |-> agg_as]
            /\ ret' = Returned(AggrServices(services, agg_energy,
                                            agg_rt_energy, agg_as))
    /\ UNCHANGED loadVars

\* fetch_as_prices(market)
CallFetchAsPrices ==
    /\ call = NoCall
    /\ \E market \in MarketArgs, fails \in 0..MaxFetchers :
         /\ call' = [fn |-> "fetch_as_prices", market |-> market,
                     fails |-> fails]
         /\ ret' = FetchAsPrices(market, fails)
    /\ UNCHANGED loadVars

\* fetch_energy_prices(market, nodal)
CallFetchEnergyPrices ==
    /\ call = NoCall
    /\ \E market \in MarketArgs, nodal \in BOOLEAN, fails \in 0..MaxFetchers :
         /\ call' = [fn |-> "fetch_energy_prices", market |-> market,
                     nodal |-> nodal, fails |-> fails]
         /\ ret' = FetchEnergyPrices(market, nodal, fails)
    /\ UNCHANGED loadVars

\* fetch_energy_prices_nodal(market)
CallFetchEnergyPricesNodal ==
    /\ call = NoCall
    /\ \E market \in MarketArgs, fails \in 0..MaxFetchers :
         /\ call' = [fn |-> "fetch_energy_prices_nodal", market |-> market,
                     fails |-> fails]
         /\ ret' = FetchEnergyPricesNodal(market, fails)
    /\ UNCHANGED loadVars

\* fetch_generation(kind)
CallFetchGeneration ==
    /\ call = NoCall
    /\ \E kind \in KindArgs, fails \in 0..MaxFetchers :
         /\ call' = [fn |-> "fetch_generation", kind |-> kind,
                     fails |-> fails]
         /\ ret' = FetchGeneration(kind, fails)
    /\ UNCHANGED loadVars

\* OasisInterface().pull(query, first_date, final_date)
CallPull ==
    /\ call = NoCall
    /\ \E query \in QueryArgs, first_date \in DateArgs,
          final_date \in DateArgs, response \in Responses :
         /\ call' = [fn |-> "pull", query |-> query,
                     first_date |-> first_date, final_date |-> final_date,
                     response |-> response]
         /\ ret' = Pull(query, first_date, final_date, response)
    /\ UNCHANGED loadVars

\* fetch_index(agg_energy=...) on a revenue table of at most MaxRevRows
\* rows
CallFetchIndex ==
    /\ call = NoCall
    /\ \E keys \in SUBSET (Timestamps \X IndexMarkets),
          days \in SUBSET CapacityDays, agg_energy \in BOOLEAN :
         /\ Cardinality(keys) \in 1..MaxRevRows
         /\ \E rev \in [keys -> Revenues], cap \in [days -> Capacities] :
              /\ call' = [fn |-> "fetch_index", rev |-> rev, cap |-> cap,
                          agg_energy |-> agg_energy]
              /\ ret' = FetchIndex(rev, cap, agg_energy)
    /\ UNCHANGED loadVars

InitCalc ==
    /\ Init
    /\ self = [cls |-> "DataFetcher", sql_interface |-> "none"]
    /\ source = NoSource
    /\ target = NoFile

NextCalc ==
    \/ CallNegativeDuration
    \/ CallTopBottomSpread
    \/ CallAggrServices
    \/ CallFetchAsPrices
    \/ CallFetchEnergyPrices
    \/ CallFetchEnergyPricesNodal
    \/ CallFetchGeneration
    \/ CallPull
    \/ CallFetchIndex

SpecCalc == InitCalc /\ [][NextCalc]_vars

(***************************************************************************)
(* Properties of load.                                                     *)
(***************************************************************************)
Done(c) == pc[c] = "done"

\* what the load call of c found in the pool
FoundTarget(c) == entry[c].target.fmt # "absent"

FoundStaged(c) ==
    entry[c].source.kind = "dir" /\ entry[c].source.entries # <<>>

FoundNoSource(c) ==
    \/ entry[c].source.kind = "absent"
    \/ entry[c].source.kind = "dir" /\ entry[c].source.entries = <<>>

\* C1 as stated: over any sequence of load calls from any pool, the bound
\* fetch function (sql_interface) is invoked at most once in total.
C1_FetchInvokedAtMostOnce == fetchCalls <= 1

\* C1 amended: once the fetch function has returned a table no later step
\* invokes it again, so it returns at most once in total; only an invocation
\* that raised is followed by another one, in a later load call.
C1_NoFetchAfterFetchReturned ==
    [][fetchReturns >= 1 => fetchCalls' = fetchCalls]_vars

C1_Witness ==
    /\ fetchCalls = 2
    /\ fetchReturns = 1
    /\ nloads = 3
    /\ Done("A")
    /\ log["A"] = <<"read_target">>

\* C2: a load that finds the target returns the stored table unchanged,
\* whatever its query parameters, and does nothing else: no fetch, no read
\* of source, no normalizer, no write to the pool.
C2_CachedLoadReturnsTarget ==
    \A c \in Callers :
        (Done(c) /\ FoundTarget(c)) =>
            /\ res[c].err = "none"
            /\ res[c].df = entry[c].target.df
            /\ log[c] = <<"read_target">>
            /\ source = entry[c].source
            /\ target = entry[c].target

C2_Witness ==
    /\ Done("A")
    /\ FoundTarget("A")
    /\ FoundNoSource("A")
    /\ self.sql_interface = "bound"
    /\ nloads = 2
    /\ processCalls = 0
    /\ args["A"] = "first_date=2025-06-01"
    /\ res["A"].df.index = <<1, 0, 2>>

\* C3: once the target exists no step changes it, and every load that finds
\* it returns what the load before it returned.
C3_TargetStable ==
    [][/\ target.fmt # "absent" => target' = target
       /\ \A c \in Callers :
            (pc'[c] = "done" /\ entry'[c].target.fmt # "absent" /\ nloads' >= 2)
                => res'[c] = prev'[c]]_vars

C3_Witness ==
    /\ Done("A")
    /\ nloads = 2
    /\ processReturns = 1
    /\ log["A"] = <<"read_target">>
    /\ res["A"] = prev["A"]
    /\ res["A"].df.index = <<1, 0, 2>>

\* the results of reading the entries one by one, in order
RECURSIVE ReadInOrder(_)
ReadInOrder(entries) ==
    IF entries = <<>> THEN <<>>
    ELSE <<UnzipOrReadSingleFile(Head(entries))>> \o ReadInOrder(Tail(entries))

\* what a load that reads exactly these entries, concatenates their rows in
\* this order and normalizes them returns or raises
NormalizedConcat(cls, entries) ==
    LET rs  == ReadInOrder(entries)
        bad == {i \in 1..Len(rs) : rs[i].err # "none"}
    IN  IF bad # {} THEN rs[CHOOSE i \in bad : \A j \in bad : i <= j]
        ELSE IF rs = <<>> THEN Raise("ValueError", {})
        ELSE Process(cls, Concat([i \in 1..Len(rs) |-> rs[i].df]))

\* the entries of a directory that are not named .DS_Store
DataFiles(entries) == SelectSeq(entries, LAMBDA e : ~IsDsStore(e))

\* C4 as stated: a load that finds no target and a non-empty source
\* directory reads every file under source: what it writes to target and
\* returns is the normalizer's output on the rows of all the entries of
\* source, in iteration order, and it does not invoke the fetch function.
C4_ReadsEveryFile ==
    \A c \in Callers :
        (Done(c) /\ ~FoundTarget(c) /\ FoundStaged(c) /\ res[c].err = "none")
            => /\ res[c] = NormalizedConcat(self.cls, entry[c].source.entries)
               /\ target = [fmt |-> "parquet", df |-> res[c].df,
                            members |-> <<>>]
               /\ Count(log[c], "fetch") = 0

\* C4 amended: such a load never invokes the fetch function and never
\* changes source; it reads the entries of source that are not named
\* .DS_Store, in iteration order.  If there is one and all are readable it
\* normalizes the concatenation of their rows, and when the normalizer
\* returns it writes that table to target and returns it; otherwise it
\* raises (ValueError when only .DS_Store entries exist) and target stays
\* absent.
C4_ReadsEveryDataFile ==
    \A c \in Callers :
        (Done(c) /\ ~FoundTarget(c) /\ FoundStaged(c)) =>
            LET out == NormalizedConcat(self.cls,
                                        DataFiles(entry[c].source.entries))
            IN  /\ res[c] = out
                /\ Count(log[c], "fetch") = 0
                /\ source = entry[c].source
                /\ IF out.err = "none"
                   THEN /\ log[c] = <<"read_source", "process", "write_target">>
                        /\ target = [fmt |-> "parquet", df |-> out.df,
                                     members |-> <<>>]
                   ELSE target.fmt = "absent"

C4_Witness ==
    /\ Done("A")
    /\ ~FoundTarget("A")
    /\ self.cls = "DataFetcher"
    /\ Len(entry["A"].source.entries) = 2
    /\ entry["A"].source.entries[1].name = Name("load", ".parquet")
    /\ entry["A"].source.entries[2].name = Name("energy", ".parquet")
    /\ res["A"].err = "none"
    /\ Len(res["A"].df.rows) = 4
    /\ res["A"].df.rows[1][LoadDate] = 12
    /\ target.fmt = "parquet"

\* the operations of the load call of c, the creation of the source
\* directory left out
Steps(c) == SelectSeq(log[c], LAMBDA op : op # "mkdir")

IsPrefix(s, t) == Len(s) <= Len(t) /\ \A i \in 1..Len(s) : s[i] = t[i]

RemoteOrder ==
    <<"fetch", "write_source", "read_source", "process", "write_target">>

\* C5: a load that finds neither target nor staged files, with a fetch
\* function bound, invokes the fetch function with the caller's query
\* parameters, writes the raw result to source, reads source back,
\* normalizes and writes target, in this order; after a load that returned,
\* source is a non-empty directory and target exists.
C5_FetchBranchOrder ==
    \A c \in Callers :
        (pc[c] # "idle" /\ ~FoundTarget(c) /\ FoundNoSource(c)
            /\ self.sql_interface = "bound") =>
            /\ IsPrefix(Steps(c), RemoteOrder)
            /\ Count(log[c], "fetch") = 1 => called = args[c]
            /\ Done(c) => Count(log[c], "fetch") = 1
            /\ (Done(c) /\ res[c].err = "none") =>
                  /\ Steps(c) = RemoteOrder
                  /\ source.kind = "dir"
                  /\ source.entries # <<>>
                  /\ target.fmt # "absent"

C5_Witness ==
    /\ Done("A")
    /\ ~FoundTarget("A")
    /\ entry["A"].source.kind = "absent"
    /\ res["A"].err = "none"
    /\ Steps("A") = RemoteOrder
    /\ called = "first_date=2025-06-01"
    /\ source = Dir(<<Entry(SourceFile, ToParquet(fetched))>>)
    /\ target = ToParquet(res["A"].df)

\* C6: a load that finds neither target nor staged files, with no fetch
\* function bound, raises the error that tells to pull the data manually
\* (RuntimeError in the code) and leaves the pool as it found it: nothing is
\* created.
C6_NoInterfaceRaises ==
    \A c \in Callers :
        (Done(c) /\ ~FoundTarget(c) /\ FoundNoSource(c)
            /\ self.sql_interface = "none") =>
            /\ res[c].err = "RuntimeError"
            /\ res[c].what = {"pull the data manually"}
            /\ log[c] = <<>>
            /\ source = entry[c].source
            /\ target = entry[c].target

C6_Witness ==
    /\ Done("A")
    /\ self.sql_interface = "none"
    /\ entry["A"].source.kind = "absent"
    /\ source.kind = "absent"
    /\ target.fmt = "absent"
    /\ res["A"].err = "RuntimeError"

\* what a load returns or raises when the raw table is staged by hand as
\* the one parquet file of source and target is absent
ManualLoad(cls, raw) ==
    NormalizedConcat(cls, <<Entry(SourceFile, [fmt |-> "parquet", df |-> raw,
                                               members |-> <<>>])>>)

\* the target such a load leaves
ManualTarget(cls, raw) ==
    IF ManualLoad(cls, raw).err = "none"
    THEN [fmt |-> "parquet", df |-> ManualLoad(cls, raw).df, members |-> <<>>]
    ELSE NoFile

\* C7: fetch-then-cache equivalence.  (a) Once the fetch function has
\* returned the raw table R, the load that fetched it and every load after
\* it return (or raise) what a single load of R staged by hand does, and
\* leave the same target.  (b) A load that finds R staged by hand as the
\* only file of source does so too.
C7_FetchThenCacheEquivalence ==
    \A c \in Callers :
        /\ (Done(c) /\ fetchReturns >= 1) =>
              /\ res[c] = ManualLoad(self.cls, fetched)
              /\ target = ManualTarget(self.cls, fetched)
        /\ \A raw \in RawTables :
              (Done(c) /\ ~FoundTarget(c)
                  /\ entry[c].source.kind = "dir"
                  /\ Len(entry[c].source.entries) = 1
                  /\ entry[c].source.entries[1].body
                       = [fmt |-> "parquet", df |-> raw, members |-> <<>>]) =>
                  /\ res[c] = ManualLoad(self.cls, raw)
                  /\ target = ManualTarget(self.cls, raw)

C7_Witness ==
    /\ Done("A")
    /\ nloads = 2
    /\ fetchReturns = 1
    /\ fetched = RawEnergy
    /\ self.cls = "EnergyPriceFetcher"
    /\ log["A"] = <<"read_target">>
    /\ res["A"].err = "none"
    /\ res["A"].df.index = <<1, 0, 2>>

\* the columns the normalizer of a fetcher class looks up by name
RequiredColumns(cls) ==
    CASE cls = "DataFetcher"        -> {}
      [] cls = "EnergyPriceFetcher" -> {EnergyPriceDate} \cup EnergyPriceToDrop
      [] cls = "LoadFetcher"        -> {LoadDate} \cup LoadToDrop
      [] cls = "IndexRevenueFetcher" -> {IndexRevenueDate, "market", "date"}
      [] cls = "ResourceNodeFetcher" -> {}

C9_NormalizedOncePerTarget ==
    /\ processReturns <= 1
    /\ processReturns = 1 => processCalls = 1
    /\ (processReturns = 1 /\ \A c \in Callers : pc[c] # "write_target")
          => target.fmt # "absent"
    /\ \A c \in Callers :
          /\ (Done(c) /\ FoundTarget(c)) => Count(log[c], "process") = 0
          /\ (Done(c) /\ ~FoundTarget(c) /\ res[c].err = "none") =>
                /\ Count(log[c], "process") = 1
                /\ processReturns = 1

C9_Witness ==
    /\ Done("A")
    /\ nloads = 3
    /\ processCalls = 1
    /\ processReturns = 1
    /\ FoundTarget("A")
    /\ prev["A"].err = "none"
    /\ Count(log["A"], "process") = 0

\* C10: a load that finds no target and returns writes exactly one artifact:
\* the target, once.  The only other file such a pass writes is the raw
\* file source/data.parquet, once, when it fetched.
C10_OneArtifactPerPass ==
    \A c \in Callers :
        (Done(c) /\ ~FoundTarget(c) /\ res[c].err = "none") =>
            /\ Count(log[c], "write_target") = 1
            /\ target = [fmt |-> "parquet", df |-> res[c].df, members |-> <<>>]
            /\ Count(log[c], "write_source") = Count(log[c], "fetch")
            /\ Count(log[c], "write_source") <= 1
            /\ IF Count(log[c], "write_source") = 0
               THEN source = entry[c].source
               ELSE /\ Len(source.entries) = 1
                    /\ source.entries[1].name = SourceFile

C10_Witness ==
    /\ Done("A")
    /\ ~FoundTarget("A")
    /\ FoundStaged("A")
    /\ self.cls = "LoadFetcher"
    /\ res["A"].err = "none"
    /\ log["A"] = <<"read_source", "process", "write_target">>
    /\ Count(log["A"], "write_target") = 1
    /\ source = entry["A"].source

(***************************************************************************)
(* Concurrent load calls.                                                  *)
(***************************************************************************)
\* caller c completes its write of target in this step
CompletesWrite(c) == pc[c] = "write_target" /\ pc'[c] = "done"

\* C11: whatever the interleaving of two load calls on an empty cache, the
\* write of target that completes replaces the content of target by the
\* table of the caller that wrote, whatever another caller had written
\* there, and no other step changes target: at every moment target holds
\* what the write that completed last has written.
C11_LastWriterWins ==
    [][/\ \A c \in Callers :
            CompletesWrite(c) =>
                /\ target' = [fmt |-> "parquet", df |-> df[c],
                              members |-> <<>>]
                /\ res'[c] = Ok(df[c])
       /\ (\A c \in Callers : ~CompletesWrite(c)) => target' = target]_vars

\* both callers have invoked the fetch function and both have written
\* target; B wrote last and its table, not the one A wrote, is in target
C11_Witness ==
    /\ Done("A") /\ Done("B")
    /\ entry["A"].target.fmt = "absent" /\ entry["B"].target.fmt = "absent"
    /\ Count(log["A"], "fetch") = 1 /\ Count(log["B"], "fetch") = 1
    /\ Count(log["A"], "write_target") = 1
    /\ Count(log["B"], "write_target") = 1
    /\ res["A"].err = "none" /\ res["B"].err = "none"
    /\ res["A"].df # res["B"].df
    /\ target = [fmt |-> "parquet", df |-> res["B"].df, members |-> <<>>]

(***************************************************************************)
(* What the normalizers leave in target.                                   *)
(***************************************************************************)
\* caller c's load found no target, normalized and wrote one
Populated(c) == Done(c) /\ ~FoundTarget(c) /\ res[c].err = "none"

NoEqualRows(t) ==
    \A i, j \in 1..Len(t.rows) : i # j => t.rows[i] # t.rows[j]

DenseIndex(t) == t.index = [k \in 1..Len(t.rows) |-> k - 1]

\* the fetchers whose class defines its own process
Overriding ==
    {"EnergyPriceFetcher", "LoadFetcher", "IndexRevenueFetcher",
     "ResourceNodeFetcher"}

SortedBy(t, by) ==
    \A i \in 1..(Len(t.rows) - 1) : ~RowBefore(t.rows[i + 1], t.rows[i], by)

\* the fetchers of the model whose target has the canonical timestamp column
Timestamped == {"EnergyPriceFetcher", "LoadFetcher", "IndexRevenueFetcher"}

\* the sort keys of the claim: the timestamp, then the market label for the
\* index datasets
SortKeys(cls) ==
    IF cls = "IndexRevenueFetcher" THEN <<"timestamp", "market">>
    ELSE <<"timestamp">>

\* C13 as stated: the rows a fetcher with a timestamp column persists are
\* in ascending order of the timestamp, then of the market label.
C13_SortedByTimestamp ==
    \A c \in Callers :
        (Populated(c) /\ self.cls \in Timestamped) =>
            SortedBy(target.df, SortKeys(self.cls))

\* C13 amended: the rows persisted by EnergyPriceFetcher are in ascending
\* order of the timestamp and those persisted by IndexRevenueFetcher in
\* ascending order of the timestamp, then of the market label;
\* LoadFetcher, whose process does not sort, persists the rows in the
\* order in which they were read from source.
C13_SortedWhereProcessSorts ==
    \A c \in Callers :
        Populated(c) =>
            /\ self.cls \in {"EnergyPriceFetcher", "IndexRevenueFetcher"} =>
                    SortedBy(target.df, SortKeys(self.cls))
            /\ self.cls = "LoadFetcher" =>
                    LET raw == ReadLocalData(entry[c].source).df
                    IN  /\ Len(target.df.rows) = Len(raw.rows)
                        /\ \A k \in 1..Len(raw.rows) :
                              target.df.rows[k]["timestamp"]
                                  = raw.rows[k][LoadDate]

\* the index revenues fetched in descending order are persisted by
\* timestamp, the two markets of the later timestamp by label
C13_Witness ==
    /\ Populated("A")
    /\ self.cls = "IndexRevenueFetcher"
    /\ fetched = RawIndexRevenue
    /\ Len(target.df.rows) = 3
    /\ target.df.index = <<2, 1, 0>>
    /\ target.df.rows[2]["timestamp"] = target.df.rows[3]["timestamp"]
    /\ target.df.rows[2]["market"] < target.df.rows[3]["market"]

(***************************************************************************)
(* Failures.                                                               *)
(***************************************************************************)
\* caller c's call of sql_interface ends in this step
FetchEnds(c) == pc[c] = "remote" /\ log'[c] # log[c]

\* caller c's read of the source directory ends in this step
ReadLocalEnds(c) == pc[c] = "local" /\ log'[c] # log[c]

\* C14: a call of sql_interface that raises ends the load call with that
\* exception, and a source file that no reader accepts ends it with the
\* exception of read_single_file; the pool is left as it was, nothing runs
\* after the failure, and no load call invokes sql_interface twice.
C14_FailuresPropagate ==
    [][\A c \in Callers :
          /\ (FetchEnds(c) /\ fetchReturns' = fetchReturns) =>
                 /\ pc'[c] = "done"
                 /\ res'[c] \in SqlInterfaceResults(self.cls)
                 /\ res'[c].err # "none"
                 /\ source' = source /\ target' = target
          /\ (ReadLocalEnds(c) /\ ReadLocalData(source).err # "none") =>
                 /\ pc'[c] = "done"
                 /\ res'[c] = ReadLocalData(source)
                 /\ source' = source /\ target' = target
          /\ Count(log'[c], "fetch") <= 1
          /\ (pc[c] = "done" /\ pc'[c] # "done") => log'[c] = <<>>]_vars

\* the one call of sql_interface raised and the load call raised with it
C14_Witness ==
    /\ Done("A")
    /\ log["A"] = <<"mkdir", "fetch">>
    /\ res["A"] = Raise("Exception", {})
    /\ fetchCalls = 1 /\ fetchReturns = 0
    /\ target.fmt = "absent"

(***************************************************************************)
(* Properties of negative_duration.                                        *)
(***************************************************************************)
\* negative_duration was called on a series with a DatetimeIndex
CalledNegativeDuration ==
    call.fn = "negative_duration" /\ call.series.index = "DatetimeIndex"

\* the samples of day d, in order
DaySamples(series, d) == SelectSeq(series.samples, LAMBDA x : DayOf(x.t) = d)

\* the len samples of xs from position i on are all strictly below 0
IsNegativeRun(xs, i, len) ==
    /\ i + len - 1 <= Len(xs)
    /\ \A k \in i..(i + len - 1) : ~xs[k].nan /\ xs[k].v < 0

\* the length of the longest run of consecutive samples strictly below 0
LongestNegativeRun(xs) ==
    CHOOSE len \in 0..Len(xs) :
        /\ len = 0 \/ \E i \in 1..Len(xs) : IsNegativeRun(xs, i, len)
        /\ \A m \in (len + 1)..Len(xs) :
              ~\E i \in 1..Len(xs) : IsNegativeRun(xs, i, m)

\* the calendar days on which the series has a sample
SampledDays(series) ==
    {DayOf(series.samples[k].t) : k \in 1..Len(series.samples)}

C16_DocstringExampleIsTwo ==
    (CalledNegativeDuration /\ call.series = ExampleSeries) => ret.val[0] = 2

\* the docstring's series was passed and the first daily value returned is
\* the run of the last three samples
C16_Witness ==
    /\ call.fn = "negative_duration"
    /\ call.series = ExampleSeries
    /\ ret.err = "none"
    /\ ret.val[0] = LongestNegativeRun(ExampleSeries.samples)
    /\ ret.val[0] # 2

\* the series with the non-negative value 0 in the place of every NaN
FillNaN(series) ==
    [series EXCEPT !.samples =
        [k \in 1..Len(series.samples) |->
            IF series.samples[k].nan
            THEN [series.samples[k] EXCEPT !.v = 0, !.nan = FALSE]
            ELSE series.samples[k]]]

\* C17: a missing value counts as a non-negative one: negative_duration
\* returns what it returns for the series with 0 in the place of every NaN,
\* so a NaN ends the run before it and starts none.
C17_NaNCountsAsNonNegative ==
    CalledNegativeDuration =>
        /\ ret.err = "none"
        /\ ret = NegativeDuration(FillNaN(call.series))
        /\ \A d \in SampledDays(call.series) :
              ret.val[d] <= Cardinality({k \in 1..Len(call.series.samples) :
                                /\ DayOf(call.series.samples[k].t) = d
                                /\ ~call.series.samples[k].nan
                                /\ call.series.samples[k].v < 0})

\* two negative samples of one day with only a NaN between them: two runs
\* of length 1
C17_Witness ==
    /\ CalledNegativeDuration
    /\ Len(call.series.samples) = 3
    /\ SampledDays(call.series) = {0}
    /\ ~call.series.samples[1].nan /\ call.series.samples[1].v < 0
    /\ call.series.samples[2].nan
    /\ ~call.series.samples[3].nan /\ call.series.samples[3].v < 0
    /\ ret.val[0] = 1

\* C18 as stated: the output has one value for each calendar day with a
\* sample and no entry for any other day.
C18_OneValuePerSampledDay ==
    CalledNegativeDuration => DOMAIN ret.val = SampledDays(call.series)

\* C18 amended: the output has one value for each calendar day from the
\* day of the first sample to the day of the last one; a day in between
\* that has no sample has the value 0.
C18_OneValuePerDayOfSpan ==
    CalledNegativeDuration =>
        LET days == SampledDays(call.series)
        IN  /\ ret.err = "none"
            /\ \A d \in 0..(2 * (MaxSamples + 1)) :
                  d \in DOMAIN ret.val <=>
                      /\ \E lo \in days : lo <= d
                      /\ \E hi \in days : d <= hi
            /\ \A d \in DOMAIN ret.val \ days : ret.val[d] = 0

\* samples on day 0 and on day 2 only: day 1 is in the output, with 0
C18_Witness ==
    /\ CalledNegativeDuration
    /\ SampledDays(call.series) = {0, 2}
    /\ DOMAIN ret.val = {0, 1, 2}
    /\ ret.val[1] = 0
    /\ ret.val[2] = 1

\* C19: negative_duration raises ValueError for a series whose index is not
\* a DatetimeIndex.
C19_RaisesValueError ==
    (call.fn = "negative_duration" /\ call.series.index # "DatetimeIndex")
        => ret.err = "ValueError"

\* a series with a RangeIndex was passed and TypeError came back
C19_Witness ==
    /\ call.fn = "negative_duration"
    /\ call.series.index = "RangeIndex"
    /\ Len(call.series.samples) = 2
    /\ ret.err = "TypeError"

(***************************************************************************)
(* Properties of TopBottomSpread.                                          *)
(***************************************************************************)
\* the sum of the n largest (largest = TRUE) or smallest elements of obj
RECURSIVE SumOfExtremes(_, _, _)
SumOfExtremes(obj, n, largest) ==
    IF n = 0 \/ obj = <<>> THEN 0
    ELSE LET i == CHOOSE i \in 1..Len(obj) :
                    \A j \in 1..Len(obj) :
                        IF largest THEN obj[j] <= obj[i] ELSE obj[i] <= obj[j]
         IN  obj[i] + SumOfExtremes(
                          [k \in 1..(Len(obj) - 1) |->
                              IF k < i THEN obj[k] ELSE obj[k + 1]],
                          n - 1, largest)

\* C20: for every count and every resolution (here those that divide the
\* hour), n = count * (60 / resolution), and for every window of at least n
\* observations the result is the sum of the n largest values minus the
\* sum of the n smallest.
C20_SpreadOfNExtremes ==
    (call.fn = "TopBottomSpread" /\ 60 % call.resolution = 0) =>
        LET n == call.tb * (60 \div call.resolution)
        IN  Len(call.obj) >= n =>
                ret.val = SumOfExtremes(call.obj, n, TRUE)
                              - SumOfExtremes(call.obj, n, FALSE)

\* count = 0 at the resolution of one observation per hour: n = 0, and the
\* result is the sum of the whole window
C20_Witness ==
    /\ call.fn = "TopBottomSpread"
    /\ call.tb = 0 /\ call.resolution = 60
    /\ call.obj = <<10, 2, 10>>
    /\ ret.val = 22

\* the n of the TopBottomSpread called: tb * (60 // resolution)
CalledN == call.tb * (60 \div call.resolution)

\* C21: a window of at most n observations raises no error and each side
\* takes all of it: the result is 0.
C21_ShortWindowGivesZero ==
    (call.fn = "TopBottomSpread" /\ Len(call.obj) <= CalledN) =>
        /\ ret.err = "none"
        /\ ret.val = 0

\* one observation, n = 2
C21_Witness ==
    /\ call.fn = "TopBottomSpread"
    /\ call.tb = 2 /\ call.resolution = 60
    /\ call.obj = <<10>>
    /\ ret.err = "none"
    /\ ret.val = 0

\* C28: with n = 0 the result is 0 for every window, and for every n >= 0
\* the result is never negative.
C28_ZeroForNZeroAndNeverNegative ==
    call.fn = "TopBottomSpread" =>
        /\ CalledN = 0 => ret.val = 0
        /\ ret.val >= 0

\* count = 1 at a resolution of two hours: n = 0, and the result is the sum
\* of the window, here negative
C28_Witness ==
    /\ call.fn = "TopBottomSpread"
    /\ call.tb = 1 /\ call.resolution = 120
    /\ call.obj = <<-5, 2, -5>>
    /\ ret.val = -8

(***************************************************************************)
(* The source path: empty, a regular file, holding only .DS_Store.         *)
(***************************************************************************)
\* the load call of c starts with the remote branch: the source directory
\* is created if need be and sql_interface is called before anything is
\* read from source
TookFetchBranch(c) ==
    /\ Len(log[c]) >= 2
    /\ log[c][1] = "mkdir" /\ log[c][2] = "fetch"

\* C25: a load that finds no target and an existing, empty source
\* directory does what it does for an absent source: it takes the remote
\* branch (RuntimeError when no sql_interface is bound).  So the load that
\* follows a failed fetch calls sql_interface again.
C25_EmptySourceFetches ==
    \A c \in Callers :
        (Done(c) /\ ~FoundTarget(c) /\ entry[c].source = Dir(<<>>)) =>
            IF self.sql_interface = "none"
            THEN /\ res[c] = Raise("RuntimeError", {"pull the data manually"})
                 /\ log[c] = <<>>
            ELSE /\ TookFetchBranch(c)
                 /\ Count(log[c], "fetch") = 1

\* the first load's fetch raised and left an empty source directory; the
\* second load has called sql_interface again
C25_Witness ==
    /\ Done("A")
    /\ nloads = 2
    /\ prev["A"] = Raise("Exception", {})
    /\ entry["A"].source = Dir(<<>>)
    /\ entry["A"].target.fmt = "absent"
    /\ TookFetchBranch("A")
    /\ fetchCalls = 2
    /\ res["A"].err = "none"

\* C26: a load that finds no target and a regular file at the source path
\* reads it, normalizes, writes target and returns, without a fetch.
C26_RegularFileIsRead ==
    \A c \in Callers :
        (Done(c) /\ ~FoundTarget(c) /\ entry[c].source.kind = "file") =>
            /\ res[c].err = "none"
            /\ target.fmt = "parquet"
            /\ Count(log[c], "fetch") = 0

\* the load took the local branch and the listing of the regular file
\* raised
C26_Witness ==
    /\ Done("A")
    /\ entry["A"].target.fmt = "absent"
    /\ entry["A"].source.kind = "file"
    /\ log["A"] = <<"read_source">>
    /\ res["A"] = Raise("NotADirectoryError", {})
    /\ target.fmt = "absent"

\* every entry of the listing is named .DS_Store, and there is one
OnlyDsStore(src) ==
    /\ src.kind = "dir"
    /\ src.entries # <<>>
    /\ \A i \in 1..Len(src.entries) :
          src.entries[i].name = [stem |-> ".DS_Store", suffix |-> ""]

\* C27: the entries named .DS_Store contribute no rows to what a load
\* returns, and a load that finds only such entries in source does what it
\* does for an empty source: it takes the remote branch.
C27_DsStoreIgnored ==
    \A c \in Callers :
        (Done(c) /\ ~FoundTarget(c) /\ FoundStaged(c)) =>
            /\ res[c].err = "none" =>
                   res[c] = NormalizedConcat(self.cls,
                                DataFiles(entry[c].source.entries))
            /\ (OnlyDsStore(entry[c].source) /\ self.sql_interface = "bound")
                   => TookFetchBranch(c)

\* source held a .DS_Store and nothing else: the load read local data and
\* the concatenation of no table raised; sql_interface was not called
C27_Witness ==
    /\ Done("A")
    /\ entry["A"].target.fmt = "absent"
    /\ OnlyDsStore(entry["A"].source)
    /\ self.sql_interface = "bound"
    /\ log["A"] = <<"read_source">>
    /\ res["A"] = Raise("ValueError", {})
    /\ fetchCalls = 0
    /\ target.fmt = "absent"

\* C29: from an empty pool, whatever load calls are made and however they
\* end, a target that exists goes with a source directory that has an
\* entry.
C29_TargetImpliesSource ==
    target.fmt # "absent" => source.kind = "dir" /\ Len(source.entries) >= 1

\* a failed fetch, then a load that fetched, stored the raw table and wrote
\* target
C29_Witness ==
    /\ Done("A")
    /\ nloads = 2
    /\ prev["A"].err = "Exception"
    /\ res["A"].err = "none"
    /\ target.fmt = "parquet"
    /\ Len(source.entries) = 1
    /\ source.entries[1].name = SourceFile

(***************************************************************************)
(* Properties of aggr_services.                                            *)
(***************************************************************************)
\* the label '<market> <service>' read as its first word and the rest
MarketOf(label) == label[1]

ServiceOf(label) == SubSeq(label, 2, Len(label))

\* C30: aggr_services returns one name per label, in the order of the
\* labels: for a label that is not an energy label "as" when agg_as and
\* its service name otherwise; for an energy label "energy" when
\* agg_energy, else with agg_rt_energy "da_energy" for market ifm and
\* "rt_energy" for any other market, else "<market>_energy".
C30_AggrServicesMapping ==
    call.fn = "aggr_services" =>
        /\ ret.err = "none"
        /\ DOMAIN ret.val = DOMAIN call.services
        /\ \A i \in DOMAIN call.services :
              LET label == call.services[i]
              IN  Len(label) >= 2 =>
                    ret.val[i] =
                      IF ServiceOf(label) # <<"energy">>
                      THEN (IF call.agg_as THEN <<"as">> ELSE ServiceOf(label))
                      ELSE IF call.agg_energy THEN <<"energy">>
                      ELSE IF call.agg_rt_energy
                      THEN (IF MarketOf(label) = "ifm" THEN <<"da_energy">>
                                                     ELSE <<"rt_energy">>)
                      ELSE CASE MarketOf(label) = "ifm" -> <<"ifm_energy">>
                             [] MarketOf(label) = "fmm" -> <<"fmm_energy">>
                             [] MarketOf(label) = "rtd" -> <<"rtd_energy">>
                             [] MarketOf(label) = "ruc" -> <<"ruc_energy">>

\* both flags set: all energy collapses to "energy", the service after it
\* to "as"
C30_Witness ==
    /\ call.fn = "aggr_services"
    /\ call.services = << <<"rtd", "energy">>, <<"ifm", "regup">> >>
    /\ call.agg_energy /\ call.agg_rt_energy /\ call.agg_as
    /\ ret.val = << <<"energy">>, <<"as">> >>

(***************************************************************************)
(* Properties of the fetch_* functions.                                    *)
(***************************************************************************)
\* the call is one of the three that take a market, with a market that is
\* neither "da" nor "rt", or fetch_generation with a kind that is neither
\* "all" nor "renewable"
UnsupportedValue ==
    \/ /\ call.fn \in {"fetch_as_prices", "fetch_energy_prices",
                       "fetch_energy_prices_nodal"}
       /\ call.market \notin {"da", "rt"}
    \/ /\ call.fn = "fetch_generation"
       /\ call.kind \notin {"all", "renewable"}

\* C23: fetch_as_prices, fetch_energy_prices, fetch_energy_prices_nodal
\* and fetch_generation called with an unsupported market or kind raise
\* ValueError and have loaded no fetcher: no cache path was read or
\* written and no fetch function called.
C23_UnsupportedValueRaisesFirst ==
    UnsupportedValue =>
        /\ ret.err = "ValueError"
        /\ ret.val = <<>>

\* nodal prices asked of a market that does not exist: raised before the
\* asset database is loaded
C23_Witness ==
    /\ call.fn = "fetch_energy_prices"
    /\ call.market = "rtm"
    /\ call.nodal
    /\ ret = Raised_("ValueError")

(***************************************************************************)
(* Properties of OasisInterface.pull.                                      *)
(***************************************************************************)
\* pull was called with a name that is not a key of queries
PulledUnknown == call.fn = "pull" /\ call.query \notin {"resource_node", "master_list"}

\* first_date is a date and final_date is a date or left empty
DatesParse ==
    /\ call.first_date.kind = "date"
    /\ call.final_date.kind \in {"date", "empty"}

\* C24 as stated: pull of a name that is not a registered query raises
\* KeyError, and no HTTP request has been made.
C24_UnknownDatasetRaisesKeyError ==
    PulledUnknown =>
        /\ ret.err = "KeyError"
        /\ ret.val = <<>>

\* C24: pull of a name that is not a registered query raises and makes no
\* HTTP request: KeyError when its dates parse, and the ValueError of the
\* date conversion, which comes first, when they do not.
C24_UnknownDatasetRaisesBeforeRequest ==
    PulledUnknown =>
        /\ ret.val = <<>>
        /\ ret.err = IF DatesParse THEN "KeyError" ELSE "ValueError"

\* an unregistered name with good dates, a server that would have
\* answered: KeyError and no request
C24_Witness ==
    /\ call.fn = "pull"
    /\ call.query = "energy_prices"
    /\ call.first_date = Date(1)
    /\ call.final_date = EmptyDate
    /\ call.response = "zip"
    /\ ret = Raised_("KeyError")

(***************************************************************************)
(* Properties of fetch_index.                                              *)
(***************************************************************************)
\* the revenue of timestamp t that the service sv collects
RevenueOf(t, sv) ==
    GroupSum({k \in DOMAIN call.rev :
                /\ k[1] = t
                /\ ServiceColumn(k[2], call.agg_energy) = sv}, call.rev)

\* the capacity table has a row for the day of t
HasCapacity(t) == (t \div 24) \in DOMAIN call.cap

CapacityOf(t) == call.cap[t \div 24]

\* C22 as stated: every revenue of the index is divided by the capacity of
\* the day of its timestamp, and is NaN where that day has no capacity or
\* a capacity of zero; nothing raises.
C22_ZeroOrMissingCapacityIsNaN ==
    call.fn = "fetch_index" =>
        /\ ret.err = "none"
        /\ \A t \in DOMAIN ret.val : \A sv \in DOMAIN ret.val[t] :
              ret.val[t][sv] =
                IF ~HasCapacity(t) \/ CapacityOf(t) = 0
                THEN [kind |-> "nan"]
                ELSE [kind |-> "num", num |-> RevenueOf(t, sv),
                      den |-> CapacityOf(t)]

\* C22: every revenue of the index is divided by the capacity of the day
\* of its timestamp; it is NaN where that day has no capacity; where the
\* capacity is zero it is NaN only for a revenue of zero, and the infinity
\* of the revenue's sign otherwise; nothing raises.
C22_MissingIsNaNZeroIsInfinity ==
    call.fn = "fetch_index" =>
        /\ ret.err = "none"
        /\ DOMAIN ret.val = {k[1] : k \in DOMAIN call.rev}
        /\ \A t \in DOMAIN ret.val : \A sv \in DOMAIN ret.val[t] :
              ret.val[t][sv] =
                IF ~HasCapacity(t) THEN [kind |-> "nan"]
                ELSE IF CapacityOf(t) # 0
                THEN [kind |-> "num", num |-> RevenueOf(t, sv),
                      den |-> CapacityOf(t)]
                ELSE IF RevenueOf(t, sv) = 0 THEN [kind |-> "nan"]
                ELSE [kind |-> "inf", negative |-> RevenueOf(t, sv) < 0]

\* hour 23 of a day of capacity zero gives an infinity, hour 25, on a day
\* the capacity table does not have, NaN
C22_Witness ==
    /\ call.fn = "fetch_index"
    /\ DOMAIN call.rev = {<<23, <<"ifm", "energy">> >>,
                          <<25, <<"ifm", "energy">> >>}
    /\ call.rev[<<23, <<"ifm", "energy">> >>] = 6
    /\ call.rev[<<25, <<"ifm", "energy">> >>] = 6
    /\ DOMAIN call.cap = {0}
    /\ call.cap[0] = 0
    /\ ~call.agg_energy
    /\ ret.val[23][<<"da_energy">>] = [kind |-> "inf", negative |-> FALSE]
    /\ ret.val[25][<<"da_energy">>] = [kind |-> "nan"]

====
